---- MODULE Spec2Model ----
(***************************************************************************)
(* Shard-level operations of the wrangler (go/vt/wrangler/shard.go):       *)
(* SetShardServedTypes, DeleteShard and RemoveShardCell, run by concurrent *)
(* callers against one (keyspace, shard) of the topology server.           *)
(* Every call of the topology server is one atomic step; a caller's        *)
(* position between two calls is its pc.                                   *)
(***************************************************************************)
EXTENDS Integers, Sequences, FiniteSets, TLC

\* ---------------------------------------------------------------- bounds
NumProcs == 2       \* concurrent callers, one call each
NumConcCells == 2   \* cells 1..NumConcCells are used by the concurrent callers
MaxCells == 2       \* longest initial Cells list under concurrent callers
MaxSeqCells == 3    \* longest initial Cells list under a single caller
MaxLinks == 1       \* most ReplicationLinks in a ShardReplication record
MaxTablets == 1     \* most tablets in the shard's tablet map
NumServingTypes == 1 \* tablet types that are in the serving graph

Procs == 1..NumProcs
ConcCells == 1..NumConcCells
CellIds == 1..(NumConcCells + 1)
NoCell == 0         \* the Cell of an empty alias, ""

\* ---------------------------------------------------------------- values
Nil == "nil"
ErrNoNode == "ErrNoNode"
ErrLock == "ErrLock"                  \* timeout, interruption, backend failure
ErrUnlock == "ErrUnlock"
ErrGetShard == "ErrGetShard"
ErrUpdateShard == "ErrUpdateShard"
ErrTabletMap == "ErrTabletMap"
ErrShardNotEmpty == "ErrShardNotEmpty"
ErrCellNotPresent == "ErrCellNotPresent"
ErrMasterInCell == "ErrMasterInCell"
ErrLinksPresent == "ErrLinksPresent"
ErrGetRepl == "ErrGetRepl"            \* lookup error other than ErrNoNode
ErrDelRepl == "ErrDelRepl"            \* the wrapped DeleteShardReplication error
ErrDeleteShard == "ErrDeleteShard"

ACTION_STATE_QUEUED == "Queued"
ACTION_STATE_DONE == "Done"
ACTION_STATE_FAILED == "Failed"

InitServedTypes == {"master", "replica", "rdonly"}   \* ServedTypes of the initial record
ServingTypes == 1..NumServingTypes    \* the tablet types IsInServingGraph accepts
ServedTypeArgs == {{"master"}, {"replica", "rdonly"}}

NoRepl == -1        \* no ShardReplication record in the cell
NoShardInfo == [Cells |-> <<>>, MasterCell |-> NoCell, ServedTypes |-> {}]

VARIABLES
  shard,        \* the authoritative Shard record: exists, Cells, MasterCell, ServedTypes
  repl,         \* per cell: NoRepl, or the number of links of its ShardReplication
  srvType,      \* per cell: the tablet types that have a SrvTabletType entry
  srvShard,     \* per cell: whether the SrvShard entry exists
  tablets,      \* number of tablets registered for the shard
  initShard,    \* the Shard record before any call
  lockHolder,   \* handle of the current lock of the shard, 0 when free
  lockPayload,  \* the ActionNode payload last recorded with the lock
  nextHandle,   \* handles already handed out by the store
  pc,           \* per caller: position in its call
  op,           \* per caller: the call and its arguments
  actionNode,   \* per caller: State and Error of the call's ActionNode
  lockPath,     \* per caller: handle returned by lockShard, 0 if none
  shardInfo,    \* per caller: local copy of the Shard record
  readInfo,     \* per caller: the Shard record as the store returned it
  cellIdx,      \* per caller: DeleteShard's position in shardInfo.Cells
  tabletMap,    \* per caller: length of the tablet map fetched, -1 if none
  err,          \* per caller: the guarded body's error
  replErr,      \* per caller: error of GetShardReplication, "none" before it
  unlockErr,    \* per caller: result of UnlockShardForAction, "none" before it
  unlockArgs,   \* per caller: handle and payload given to UnlockShardForAction
  ret,          \* per caller: the value returned
  calls         \* per caller: the store calls issued, each with whether the
                \* caller held the shard lock at that moment

vars == <<shard, repl, srvType, srvShard, tablets, initShard, lockHolder, lockPayload,
          nextHandle, pc, op, actionNode, lockPath, shardInfo, readInfo,
          cellIdx, tabletMap, err, replErr, unlockErr, unlockArgs, ret, calls>>

storeVars == <<shard, repl, srvType, srvShard, tablets, initShard>>
lockVars == <<lockHolder, lockPayload, nextHandle>>

\* ---------------------------------------------------------------- helpers
RECURSIVE SeqsUpTo(_, _)
SeqsUpTo(S, n) ==
  IF n = 0 THEN {<<>>}
  ELSE LET shorter == SeqsUpTo(S, n - 1)
       IN shorter \cup {Append(s, x) : s \in shorter, x \in S}

Range(s) == {s[i] : i \in 1..Len(s)}

\* whether the caller holds the shard lock now
Holds(p) == lockPath[p] # 0 /\ lockHolder = lockPath[p]

Logged(p, name) == [calls EXCEPT ![p] = Append(@, [call |-> name, held |-> Holds(p)])]

\* topo.InCellList
InCellList(cell, cells) == cell \in Range(cells)

\* the state before any call: a Shard record whose Cells are drawn from `cells`,
\* ShardReplication records only in cells the shard lists
InitWith(cells, maxLen) ==
  /\ shard \in [exists : {TRUE}, Cells : SeqsUpTo(cells, maxLen),
                MasterCell : cells, ServedTypes : {InitServedTypes}]
  /\ repl \in [CellIds -> {NoRepl} \cup (0..MaxLinks)]
  /\ \A c \in CellIds : ~InCellList(c, shard.Cells) => repl[c] = NoRepl
  /\ srvType = [c \in CellIds |-> ServingTypes]
  /\ srvShard = [c \in CellIds |-> TRUE]
  /\ tablets \in 0..MaxTablets
  /\ initShard = shard
  /\ lockHolder = 0
  /\ lockPayload = <<"none", "">>
  /\ nextHandle = 0
  /\ pc = [p \in Procs |-> "idle"]
  /\ op = [p \in Procs |-> [name |-> "none", servedTypes |-> {}, cell |-> NoCell,
                           force |-> FALSE]]
  /\ actionNode = [p \in Procs |-> [State |-> "none", Error |-> ""]]
  /\ lockPath = [p \in Procs |-> 0]
  /\ shardInfo = [p \in Procs |-> NoShardInfo]
  /\ readInfo = [p \in Procs |-> NoShardInfo]
  /\ cellIdx = [p \in Procs |-> 0]
  /\ tabletMap = [p \in Procs |-> -1]
  /\ err = [p \in Procs |-> Nil]
  /\ replErr = [p \in Procs |-> "none"]
  /\ unlockErr = [p \in Procs |-> "none"]
  /\ unlockArgs = [p \in Procs |-> <<0, <<"none", "">>>>]
  /\ ret = [p \in Procs |-> "none"]
  /\ calls = [p \in Procs |-> <<>>]

Init == InitWith(ConcCells, MaxCells)

InitSeq == InitWith(CellIds, MaxSeqCells)


\* ---------------------------------------------------------------- the store
NoShard == [exists |-> FALSE, Cells |-> <<>>, MasterCell |-> NoCell, ServedTypes |-> {}]

AsInfo(rec) == [Cells |-> rec.Cells, MasterCell |-> rec.MasterCell,
                ServedTypes |-> rec.ServedTypes]

\* GetShard / GetShardCritical: the results the store can give, <<error, record>>
GetShardResults ==
  {<<ErrGetShard, NoShardInfo>>} \cup
  (IF shard.exists THEN {<<Nil, AsInfo(shard)>>} ELSE {<<ErrNoNode, NoShardInfo>>})

\* UpdateShard(info): overwrites the record that exists; <<error, new record>>
UpdateShardResults(info) ==
  {<<ErrUpdateShard, shard>>} \cup
  (IF shard.exists
   THEN {<<Nil, [exists |-> TRUE, Cells |-> info.Cells, MasterCell |-> info.MasterCell,
                 ServedTypes |-> info.ServedTypes]>>}
   ELSE {<<ErrNoNode, shard>>})

\* the store's DeleteShard(keyspace, shard); <<error, new record>>
StoreDeleteShardResults ==
  {<<ErrDeleteShard, shard>>} \cup
  (IF shard.exists THEN {<<Nil, NoShard>>} ELSE {<<ErrNoNode, shard>>})

\* GetShardReplication(cell): <<error, number of links>>
GetShardReplicationResults(cell) ==
  {<<ErrGetRepl, 0>>} \cup
  (IF repl[cell] = NoRepl THEN {<<ErrNoNode, 0>>} ELSE {<<Nil, repl[cell]>>})

\* DeleteShardReplication(cell): <<error, new repl>>; deleting twice is no error
DeleteShardReplicationResults(cell) ==
  {<<ErrDelRepl, repl>>, <<Nil, [repl EXCEPT ![cell] = NoRepl]>>}

\* LockShardForAction(keyspace, shard, payload, timeout, interrupted) with result e:
\* the lock is granted only when free; a waiter may time out or be interrupted
LockShardForAction(p, payload, e) ==
  \/ /\ e = Nil
     /\ lockHolder = 0
     /\ nextHandle' = nextHandle + 1
     /\ lockHolder' = nextHandle + 1
     /\ lockPayload' = payload
     /\ lockPath' = [lockPath EXCEPT ![p] = nextHandle + 1]
  \/ /\ e = ErrLock
     /\ UNCHANGED <<lockVars, lockPath>>

\* UnlockShardForAction(keyspace, shard, lockPath, payload) with result e: releases
\* the lock named by the handle and records the payload; when it fails the lock
\* may or may not have been released
UnlockShardForAction(path, payload, e) ==
  \/ /\ e = Nil
     /\ lockHolder = path
     /\ lockHolder' = 0
     /\ lockPayload' = payload
     /\ UNCHANGED nextHandle
  \/ /\ e = ErrUnlock
     /\ lockHolder' \in {lockHolder} \cup (IF lockHolder = path THEN {0} ELSE {})
     /\ UNCHANGED <<lockPayload, nextHandle>>

\* actionNode.ToJson(): what of the node the claims look at
ToJson(node) == <<node.State, node.Error>>

\* ---------------------------------------------------------------- callers
SetOp(T) == [name |-> "SetShardServedTypes", servedTypes |-> T, cell |-> NoCell, force |-> FALSE]
RemoveOp(c, f) == [name |-> "RemoveShardCell", servedTypes |-> {}, cell |-> c, force |-> f]
DeleteOp == [name |-> "DeleteShard", servedTypes |-> {}, cell |-> NoCell, force |-> FALSE]

Ops(cells) == {SetOp(T) : T \in ServedTypeArgs}
              \cup {RemoveOp(c, f) : c \in cells, f \in BOOLEAN}
              \cup {DeleteOp}

Return(p, e) ==
  /\ ret' = [ret EXCEPT ![p] = e]
  /\ pc' = [pc EXCEPT ![p] = "done"]

localVars == <<lockPath, shardInfo, readInfo, cellIdx, tabletMap, err, replErr, unlockErr, unlockArgs>>

\* a caller invokes one of the three operations; the two lock-guarded ones
\* construct their ActionNode (shard.go:48, shard.go:115)
CallFrom(p, cells) ==
  /\ pc[p] = "idle"
  /\ \E o \in Ops(cells) :
       /\ op' = [op EXCEPT ![p] = o]
       /\ IF o.name = "DeleteShard"
          THEN /\ pc' = [pc EXCEPT ![p] = "ds_get"]
               /\ UNCHANGED actionNode
          ELSE /\ pc' = [pc EXCEPT ![p] = "lock"]
               /\ actionNode' = [actionNode EXCEPT
                                   ![p] = [State |-> ACTION_STATE_QUEUED, Error |-> ""]]
  /\ UNCHANGED <<storeVars, lockVars, localVars, ret, calls>>

Call(p) == CallFrom(p, ConcCells)

CallSeq(p) == CallFrom(p, CellIds)

\* lockShard waiting for the lock without timeout or interruption
lockShard_WaitsForever(p, e) ==
  /\ e = Nil
  /\ LockShardForAction(p, ToJson(actionNode[p]), e)
  /\ calls' = Logged(p, "LockShardForAction")

\* lockShard, with result e
lockShard(p, e) ==
  /\ LockShardForAction(p, ToJson(actionNode[p]), e)
  /\ calls' = Logged(p, "LockShardForAction")

\* SetShardServedTypes without `if err != nil { return err }` after lockShard
SetShardServedTypes_NoErrCheck(p) ==
  /\ pc[p] = "lock"
  /\ op[p].name = "SetShardServedTypes"
  /\ \E e \in {Nil, ErrLock} : lockShard(p, e)
  /\ pc' = [pc EXCEPT ![p] = "ss_get"]
  /\ UNCHANGED <<storeVars, op, actionNode, shardInfo, readInfo, cellIdx, tabletMap,
                 err, replErr, unlockErr, unlockArgs, ret>>

\* SetShardServedTypes up to the call of setShardServedTypes
SetShardServedTypes(p) ==
  /\ pc[p] = "lock"
  /\ op[p].name = "SetShardServedTypes"
  /\ \E e \in {Nil, ErrLock} :
       /\ lockShard(p, e)
       /\ IF e # Nil
          THEN Return(p, e)
          ELSE pc' = [pc EXCEPT ![p] = "ss_get"] /\ UNCHANGED ret
  /\ UNCHANGED <<storeVars, op, actionNode, shardInfo, readInfo, cellIdx, tabletMap,
                 err, replErr, unlockErr, unlockArgs>>

\* RemoveShardCell without `if err != nil { return err }` after lockShard
RemoveShardCell_NoErrCheck(p) ==
  /\ pc[p] = "lock"
  /\ op[p].name = "RemoveShardCell"
  /\ \E e \in {Nil, ErrLock} : lockShard(p, e)
  /\ pc' = [pc EXCEPT ![p] = "rc_get"]
  /\ UNCHANGED <<storeVars, op, actionNode, shardInfo, readInfo, cellIdx, tabletMap,
                 err, replErr, unlockErr, unlockArgs, ret>>

\* RemoveShardCell up to the call of removeShardCell
RemoveShardCell(p) ==
  /\ pc[p] = "lock"
  /\ op[p].name = "RemoveShardCell"
  /\ \E e \in {Nil, ErrLock} :
       /\ lockShard(p, e)
       /\ IF e # Nil
          THEN Return(p, e)
          ELSE pc' = [pc EXCEPT ![p] = "rc_get"] /\ UNCHANGED ret
  /\ UNCHANGED <<storeVars, op, actionNode, shardInfo, readInfo, cellIdx, tabletMap,
                 err, replErr, unlockErr, unlockArgs>>

\* the guarded body's error returned at once, without the call of unlockShard
BodyReturns_SkipsUnlock(p, e) ==
  /\ err' = [err EXCEPT ![p] = e]
  /\ pc' = [pc EXCEPT ![p] = IF e # Nil THEN "done" ELSE "unlock"]

\* the guarded body ends with error e: on to unlockShard
BodyReturns(p, e) ==
  /\ err' = [err EXCEPT ![p] = e]
  /\ pc' = [pc EXCEPT ![p] = "unlock"]

\* setShardServedTypes: GetShard
setShardServedTypes_GetShard(p) ==
  /\ pc[p] = "ss_get"
  /\ \E r \in GetShardResults :
       IF r[1] # Nil
       THEN BodyReturns(p, r[1]) /\ UNCHANGED <<shardInfo, readInfo>>
       ELSE /\ shardInfo' = [shardInfo EXCEPT ![p] = r[2]]
            /\ readInfo' = [readInfo EXCEPT ![p] = r[2]]
            /\ pc' = [pc EXCEPT ![p] = "ss_update"]
            /\ UNCHANGED err
  /\ calls' = Logged(p, "GetShard")
  /\ UNCHANGED <<storeVars, lockVars, op, actionNode, lockPath, cellIdx, tabletMap,
                 replErr, unlockErr, unlockArgs, ret>>

\* setShardServedTypes writing back the record as read
setShardServedTypes_UpdateShard_NoAssign(p) ==
  /\ pc[p] = "ss_update"
  /\ \E r \in UpdateShardResults(shardInfo[p]) :
       /\ shard' = r[2]
       /\ BodyReturns(p, r[1])
  /\ calls' = Logged(p, "UpdateShard")
  /\ UNCHANGED <<repl, srvType, srvShard, tablets, initShard, lockVars, op, actionNode, lockPath,
                 shardInfo, readInfo, cellIdx, tabletMap, replErr, unlockErr, unlockArgs, ret>>

\* setShardServedTypes rebuilding the SrvShard entries from the cells of the record
setShardServedTypes_UpdateShard_RebuildsSrvShard(p) ==
  /\ pc[p] = "ss_update"
  /\ LET info == [shardInfo[p] EXCEPT !.ServedTypes = op[p].servedTypes]
     IN /\ shardInfo' = [shardInfo EXCEPT ![p] = info]
        /\ srvShard' = [c \in CellIds |-> InCellList(c, info.Cells)]
        /\ \E r \in UpdateShardResults(info) :
             /\ shard' = r[2]
             /\ BodyReturns(p, r[1])
  /\ calls' = Logged(p, "UpdateShard")
  /\ UNCHANGED <<repl, srvType, tablets, initShard, lockVars, op, actionNode, lockPath,
                 readInfo, cellIdx, tabletMap, replErr, unlockErr, unlockArgs, ret>>

\* setShardServedTypes creating the record when UpdateShard finds none
setShardServedTypes_UpdateShard_CreatesIfMissing(p) ==
  /\ pc[p] = "ss_update"
  /\ LET info == [shardInfo[p] EXCEPT !.ServedTypes = op[p].servedTypes]
     IN /\ shardInfo' = [shardInfo EXCEPT ![p] = info]
        /\ \E r \in UpdateShardResults(info) :
             IF r[1] = ErrNoNode
             THEN /\ shard' = [exists |-> TRUE, Cells |-> info.Cells,
                               MasterCell |-> info.MasterCell,
                               ServedTypes |-> info.ServedTypes]
                  /\ BodyReturns(p, Nil)
             ELSE /\ shard' = r[2]
                  /\ BodyReturns(p, r[1])
  /\ calls' = Logged(p, "UpdateShard")
  /\ UNCHANGED <<repl, srvType, srvShard, tablets, initShard, lockVars, op, actionNode, lockPath,
                 readInfo, cellIdx, tabletMap, replErr, unlockErr, unlockArgs, ret>>

\* setShardServedTypes: shardInfo.ServedTypes = servedTypes; UpdateShard
setShardServedTypes_UpdateShard(p) ==
  /\ pc[p] = "ss_update"
  /\ LET info == [shardInfo[p] EXCEPT !.ServedTypes = op[p].servedTypes]
     IN /\ shardInfo' = [shardInfo EXCEPT ![p] = info]
        /\ \E r \in UpdateShardResults(info) :
             /\ shard' = r[2]
             /\ BodyReturns(p, r[1])
  /\ calls' = Logged(p, "UpdateShard")
  /\ UNCHANGED <<repl, srvType, srvShard, tablets, initShard, lockVars, op, actionNode, lockPath,
                 readInfo, cellIdx, tabletMap, replErr, unlockErr, unlockArgs, ret>>

\* unlockShard deriving the node's state from the unlock call's result
unlockShard_StateFromUnlock(p) ==
  /\ pc[p] = "unlock"
  /\ \E e \in {Nil, ErrUnlock} :
       LET node == IF e # Nil
                   THEN [State |-> ACTION_STATE_FAILED, Error |-> e]
                   ELSE [State |-> ACTION_STATE_DONE, Error |-> ""]
       IN /\ actionNode' = [actionNode EXCEPT ![p] = node]
          /\ UnlockShardForAction(lockPath[p], ToJson(node), e)
          /\ unlockErr' = [unlockErr EXCEPT ![p] = e]
          /\ unlockArgs' = [unlockArgs EXCEPT ![p] = <<lockPath[p], ToJson(node)>>]
          /\ Return(p, IF err[p] # Nil THEN err[p] ELSE e)
  /\ calls' = Logged(p, "UnlockShardForAction")
  /\ UNCHANGED <<storeVars, op, lockPath, shardInfo, readInfo, cellIdx, tabletMap, err,
                 replErr>>

\* unlockShard returning the unlock call's error whenever there is one
unlockShard_UnlockErrFirst(p) ==
  /\ pc[p] = "unlock"
  /\ LET node == IF err[p] # Nil
                 THEN [State |-> ACTION_STATE_FAILED, Error |-> err[p]]
                 ELSE [State |-> ACTION_STATE_DONE, Error |-> ""]
     IN /\ actionNode' = [actionNode EXCEPT ![p] = node]
        /\ \E e \in {Nil, ErrUnlock} :
             /\ UnlockShardForAction(lockPath[p], ToJson(node), e)
             /\ unlockErr' = [unlockErr EXCEPT ![p] = e]
             /\ unlockArgs' = [unlockArgs EXCEPT ![p] = <<lockPath[p], ToJson(node)>>]
             /\ Return(p, IF e # Nil THEN e ELSE err[p])
  /\ calls' = Logged(p, "UnlockShardForAction")
  /\ UNCHANGED <<storeVars, op, lockPath, shardInfo, readInfo, cellIdx, tabletMap, err,
                 replErr>>

\* unlockShard ending with `return actionError` on every path
unlockShard_ReturnsActionError(p) ==
  /\ pc[p] = "unlock"
  /\ LET node == IF err[p] # Nil
                 THEN [State |-> ACTION_STATE_FAILED, Error |-> err[p]]
                 ELSE [State |-> ACTION_STATE_DONE, Error |-> ""]
     IN /\ actionNode' = [actionNode EXCEPT ![p] = node]
        /\ \E e \in {Nil, ErrUnlock} :
             /\ UnlockShardForAction(lockPath[p], ToJson(node), e)
             /\ unlockErr' = [unlockErr EXCEPT ![p] = e]
             /\ unlockArgs' = [unlockArgs EXCEPT ![p] = <<lockPath[p], ToJson(node)>>]
             /\ Return(p, err[p])
  /\ calls' = Logged(p, "UnlockShardForAction")
  /\ UNCHANGED <<storeVars, op, lockPath, shardInfo, readInfo, cellIdx, tabletMap, err,
                 replErr>>

\* unlockShard serializing the node before it sets State and Error
unlockShard_PayloadBeforeUpdate(p) ==
  /\ pc[p] = "unlock"
  /\ LET node == IF err[p] # Nil
                 THEN [State |-> ACTION_STATE_FAILED, Error |-> err[p]]
                 ELSE [State |-> ACTION_STATE_DONE, Error |-> ""]
     IN /\ actionNode' = [actionNode EXCEPT ![p] = node]
        /\ \E e \in {Nil, ErrUnlock} :
             /\ UnlockShardForAction(lockPath[p], ToJson(actionNode[p]), e)
             /\ unlockErr' = [unlockErr EXCEPT ![p] = e]
             /\ unlockArgs' = [unlockArgs EXCEPT ![p] = <<lockPath[p], ToJson(actionNode[p])>>]
             /\ Return(p, IF err[p] # Nil THEN err[p] ELSE e)
  /\ calls' = Logged(p, "UnlockShardForAction")
  /\ UNCHANGED <<storeVars, op, lockPath, shardInfo, readInfo, cellIdx, tabletMap, err,
                 replErr>>

\* unlockShard
unlockShard(p) ==
  /\ pc[p] = "unlock"
  /\ LET node == IF err[p] # Nil
                 THEN [State |-> ACTION_STATE_FAILED, Error |-> err[p]]
                 ELSE [State |-> ACTION_STATE_DONE, Error |-> ""]
     IN /\ actionNode' = [actionNode EXCEPT ![p] = node]
        /\ \E e \in {Nil, ErrUnlock} :
             /\ UnlockShardForAction(lockPath[p], ToJson(node), e)
             /\ unlockErr' = [unlockErr EXCEPT ![p] = e]
             /\ unlockArgs' = [unlockArgs EXCEPT ![p] = <<lockPath[p], ToJson(node)>>]
             /\ Return(p, IF err[p] # Nil THEN err[p] ELSE e)
  /\ calls' = Logged(p, "UnlockShardForAction")
  /\ UNCHANGED <<storeVars, op, lockPath, shardInfo, readInfo, cellIdx, tabletMap, err,
                 replErr>>


\* removeShardCell without the check of the master alias
removeShardCell_GetShardCritical_NoMasterCheck(p) ==
  /\ pc[p] = "rc_get"
  /\ \E r \in GetShardResults :
       IF r[1] # Nil
       THEN BodyReturns(p, r[1]) /\ UNCHANGED <<shardInfo, readInfo>>
       ELSE /\ shardInfo' = [shardInfo EXCEPT ![p] = r[2]]
            /\ readInfo' = [readInfo EXCEPT ![p] = r[2]]
            /\ IF ~InCellList(op[p].cell, r[2].Cells)
               THEN BodyReturns(p, ErrCellNotPresent)
               ELSE pc' = [pc EXCEPT ![p] = "rc_getrepl"] /\ UNCHANGED err
  /\ calls' = Logged(p, "GetShardCritical")
  /\ UNCHANGED <<storeVars, lockVars, op, actionNode, lockPath, cellIdx, tabletMap,
                 replErr, unlockErr, unlockArgs, ret>>

\* removeShardCell testing the master alias before the presence of the cell
removeShardCell_GetShardCritical_MasterFirst(p) ==
  /\ pc[p] = "rc_get"
  /\ \E r \in GetShardResults :
       IF r[1] # Nil
       THEN BodyReturns(p, r[1]) /\ UNCHANGED <<shardInfo, readInfo>>
       ELSE /\ shardInfo' = [shardInfo EXCEPT ![p] = r[2]]
            /\ readInfo' = [readInfo EXCEPT ![p] = r[2]]
            /\ IF r[2].MasterCell = op[p].cell
               THEN BodyReturns(p, ErrMasterInCell)
               ELSE IF ~InCellList(op[p].cell, r[2].Cells)
               THEN BodyReturns(p, ErrCellNotPresent)
               ELSE pc' = [pc EXCEPT ![p] = "rc_getrepl"] /\ UNCHANGED err
  /\ calls' = Logged(p, "GetShardCritical")
  /\ UNCHANGED <<storeVars, lockVars, op, actionNode, lockPath, cellIdx, tabletMap,
                 replErr, unlockErr, unlockArgs, ret>>

\* removeShardCell: GetShardCritical and the two checks on the record read
removeShardCell_GetShardCritical(p) ==
  /\ pc[p] = "rc_get"
  /\ \E r \in GetShardResults :
       IF r[1] # Nil
       THEN BodyReturns(p, r[1]) /\ UNCHANGED <<shardInfo, readInfo>>
       ELSE /\ shardInfo' = [shardInfo EXCEPT ![p] = r[2]]
            /\ readInfo' = [readInfo EXCEPT ![p] = r[2]]
            /\ IF ~InCellList(op[p].cell, r[2].Cells)
               THEN BodyReturns(p, ErrCellNotPresent)
               ELSE IF r[2].MasterCell = op[p].cell
               THEN BodyReturns(p, ErrMasterInCell)
               ELSE pc' = [pc EXCEPT ![p] = "rc_getrepl"] /\ UNCHANGED err
  /\ calls' = Logged(p, "GetShardCritical")
  /\ UNCHANGED <<storeVars, lockVars, op, actionNode, lockPath, cellIdx, tabletMap,
                 replErr, unlockErr, unlockArgs, ret>>

\* removeShardCell with the force flag read the wrong way round
removeShardCell_GetShardReplication_ForceInverted(p) ==
  /\ pc[p] = "rc_getrepl"
  /\ \E r \in GetShardReplicationResults(op[p].cell) :
       /\ replErr' = [replErr EXCEPT ![p] = r[1]]
       /\ IF r[1] = Nil
          THEN IF r[2] > 0
               THEN BodyReturns(p, ErrLinksPresent)
               ELSE pc' = [pc EXCEPT ![p] = "rc_delrepl"] /\ UNCHANGED err
          ELSE IF r[1] = ErrNoNode
          THEN pc' = [pc EXCEPT ![p] = "rc_update"] /\ UNCHANGED err
          ELSE IF op[p].force
          THEN BodyReturns(p, r[1])
          ELSE pc' = [pc EXCEPT ![p] = "rc_update"] /\ UNCHANGED err
  /\ calls' = Logged(p, "GetShardReplication")
  /\ UNCHANGED <<storeVars, lockVars, op, actionNode, lockPath, shardInfo, readInfo,
                 cellIdx, tabletMap, unlockErr, unlockArgs, ret>>

\* removeShardCell with force also skipping the test of the replication links
removeShardCell_GetShardReplication_ForceSkipsLinks(p) ==
  /\ pc[p] = "rc_getrepl"
  /\ \E r \in GetShardReplicationResults(op[p].cell) :
       /\ replErr' = [replErr EXCEPT ![p] = r[1]]
       /\ IF r[1] = Nil
          THEN IF r[2] > 0 /\ ~op[p].force
               THEN BodyReturns(p, ErrLinksPresent)
               ELSE pc' = [pc EXCEPT ![p] = "rc_delrepl"] /\ UNCHANGED err
          ELSE IF r[1] = ErrNoNode
          THEN pc' = [pc EXCEPT ![p] = "rc_update"] /\ UNCHANGED err
          ELSE IF ~op[p].force
          THEN BodyReturns(p, r[1])
          ELSE pc' = [pc EXCEPT ![p] = "rc_update"] /\ UNCHANGED err
  /\ calls' = Logged(p, "GetShardReplication")
  /\ UNCHANGED <<storeVars, lockVars, op, actionNode, lockPath, shardInfo, readInfo,
                 cellIdx, tabletMap, unlockErr, unlockArgs, ret>>

\* removeShardCell: GetShardReplication and the switch on its error
removeShardCell_GetShardReplication(p) ==
  /\ pc[p] = "rc_getrepl"
  /\ \E r \in GetShardReplicationResults(op[p].cell) :
       /\ replErr' = [replErr EXCEPT ![p] = r[1]]
       /\ IF r[1] = Nil
          THEN IF r[2] > 0
               THEN BodyReturns(p, ErrLinksPresent)
               ELSE pc' = [pc EXCEPT ![p] = "rc_delrepl"] /\ UNCHANGED err
          ELSE IF r[1] = ErrNoNode
          THEN pc' = [pc EXCEPT ![p] = "rc_update"] /\ UNCHANGED err
          ELSE IF ~op[p].force
          THEN BodyReturns(p, r[1])
          ELSE pc' = [pc EXCEPT ![p] = "rc_update"] /\ UNCHANGED err
  /\ calls' = Logged(p, "GetShardReplication")
  /\ UNCHANGED <<storeVars, lockVars, op, actionNode, lockPath, shardInfo, readInfo,
                 cellIdx, tabletMap, unlockErr, unlockArgs, ret>>

\* removeShardCell only logging the error of DeleteShardReplication
removeShardCell_DeleteShardReplication_ErrorLogged(p) ==
  /\ pc[p] = "rc_delrepl"
  /\ \E r \in DeleteShardReplicationResults(op[p].cell) :
       repl' = r[2]
  /\ pc' = [pc EXCEPT ![p] = "rc_update"]
  /\ calls' = Logged(p, "DeleteShardReplication")
  /\ UNCHANGED <<shard, srvType, srvShard, tablets, initShard, lockVars, op, actionNode, lockPath,
                 shardInfo, readInfo, cellIdx, tabletMap, err, replErr, unlockErr, unlockArgs,
                 ret>>

\* removeShardCell: the empty ShardReplication object is removed
removeShardCell_DeleteShardReplication(p) ==
  /\ pc[p] = "rc_delrepl"
  /\ \E r \in DeleteShardReplicationResults(op[p].cell) :
       /\ repl' = r[2]
       /\ IF r[1] # Nil
          THEN BodyReturns(p, ErrDelRepl)
          ELSE pc' = [pc EXCEPT ![p] = "rc_update"] /\ UNCHANGED err
  /\ calls' = Logged(p, "DeleteShardReplication")
  /\ UNCHANGED <<shard, srvType, srvShard, tablets, initShard, lockVars, op, actionNode, lockPath,
                 shardInfo, readInfo, cellIdx, tabletMap, replErr, unlockErr, unlockArgs, ret>>

\* removal by moving the last cell into the place of the first match
NewCells_SwapRemove(cells, cell) ==
  IF ~InCellList(cell, cells) THEN cells
  ELSE LET i == CHOOSE k \in 1..Len(cells) :
                  cells[k] = cell /\ \A j \in 1..(k - 1) : cells[j] # cell
       IN SubSeq([cells EXCEPT ![i] = cells[Len(cells)]], 1, Len(cells) - 1)

\* the loop that builds newCells
NewCells(cells, cell) == SelectSeq(cells, LAMBDA c : c # cell)

\* removeShardCell: shardInfo.Cells = newCells; UpdateShard
removeShardCell_UpdateShard(p) ==
  /\ pc[p] = "rc_update"
  /\ LET info == [shardInfo[p] EXCEPT !.Cells = NewCells(shardInfo[p].Cells, op[p].cell)]
     IN /\ shardInfo' = [shardInfo EXCEPT ![p] = info]
        /\ \E r \in UpdateShardResults(info) :
             /\ shard' = r[2]
             /\ BodyReturns(p, r[1])
  /\ calls' = Logged(p, "UpdateShard")
  /\ UNCHANGED <<repl, srvType, srvShard, tablets, initShard, lockVars, op, actionNode, lockPath,
                 readInfo, cellIdx, tabletMap, replErr, unlockErr, unlockArgs, ret>>

\* ---------------------------------------------------------------- DeleteShard
DeleteShard_GetShard(p) ==
  /\ pc[p] = "ds_get"
  /\ \E r \in GetShardResults :
       IF r[1] # Nil
       THEN Return(p, r[1]) /\ UNCHANGED <<shardInfo, readInfo>>
       ELSE /\ shardInfo' = [shardInfo EXCEPT ![p] = r[2]]
            /\ readInfo' = [readInfo EXCEPT ![p] = r[2]]
            /\ pc' = [pc EXCEPT ![p] = "ds_tabletmap"]
            /\ UNCHANGED ret
  /\ calls' = Logged(p, "GetShard")
  /\ UNCHANGED <<storeVars, lockVars, op, actionNode, lockPath, cellIdx, tabletMap,
                 err, replErr, unlockErr, unlockArgs>>

\* DeleteShard without the test of the tablet map's length
DeleteShard_GetTabletMap_NoLenCheck(p) ==
  /\ pc[p] = "ds_tabletmap"
  /\ \/ /\ Return(p, ErrTabletMap)
        /\ UNCHANGED <<tabletMap, cellIdx>>
     \/ /\ tabletMap' = [tabletMap EXCEPT ![p] = tablets]
        /\ cellIdx' = [cellIdx EXCEPT ![p] = 1]
        /\ pc' = [pc EXCEPT ![p] = IF Len(shardInfo[p].Cells) = 0
                                   THEN "ds_delete" ELSE "ds_repl"]
        /\ UNCHANGED ret
  /\ calls' = Logged(p, "GetTabletMapForShard")
  /\ UNCHANGED <<storeVars, lockVars, op, actionNode, lockPath, shardInfo, readInfo,
                 err, replErr, unlockErr, unlockArgs>>

\* GetTabletMapForShard and the test of its length; then the loop over the cells starts
DeleteShard_GetTabletMap(p) ==
  /\ pc[p] = "ds_tabletmap"
  /\ \/ /\ Return(p, ErrTabletMap)
        /\ UNCHANGED <<tabletMap, cellIdx>>
     \/ /\ tabletMap' = [tabletMap EXCEPT ![p] = tablets]
        /\ IF tablets > 0
           THEN Return(p, ErrShardNotEmpty) /\ UNCHANGED cellIdx
           ELSE /\ cellIdx' = [cellIdx EXCEPT ![p] = 1]
                /\ pc' = [pc EXCEPT ![p] = IF Len(shardInfo[p].Cells) = 0
                                           THEN "ds_delete" ELSE "ds_repl"]
                /\ UNCHANGED ret
  /\ calls' = Logged(p, "GetTabletMapForShard")
  /\ UNCHANGED <<storeVars, lockVars, op, actionNode, lockPath, shardInfo, readInfo,
                 err, replErr, unlockErr, unlockArgs>>

\* DeleteShard returning the error of DeleteShardReplication instead of logging it
DeleteShard_DeleteShardReplication_ReturnsError(p) ==
  /\ pc[p] = "ds_repl"
  /\ \E r \in DeleteShardReplicationResults(shardInfo[p].Cells[cellIdx[p]]) :
       /\ repl' = r[2]
       /\ IF r[1] # Nil
          THEN Return(p, r[1])
          ELSE pc' = [pc EXCEPT ![p] = "ds_srvtype"] /\ UNCHANGED ret
  /\ calls' = Logged(p, "DeleteShardReplication")
  /\ UNCHANGED <<shard, srvType, srvShard, tablets, initShard, lockVars, op, actionNode,
                 localVars>>

\* loop body, first call: DeleteShardReplication, its error only logged
DeleteShard_DeleteShardReplication(p) ==
  /\ pc[p] = "ds_repl"
  /\ \E r \in DeleteShardReplicationResults(shardInfo[p].Cells[cellIdx[p]]) :
       repl' = r[2]
  /\ pc' = [pc EXCEPT ![p] = "ds_srvtype"]
  /\ calls' = Logged(p, "DeleteShardReplication")
  /\ UNCHANGED <<shard, srvType, srvShard, tablets, initShard, lockVars, op, actionNode, localVars,
                 ret>>

\* loop body, inner loop: DeleteSrvTabletType of every type in the serving graph,
\* each of which removes the entry or fails and is only logged
DeleteShard_DeleteSrvTabletType(p) ==
  /\ pc[p] = "ds_srvtype"
  /\ LET cell == shardInfo[p].Cells[cellIdx[p]]
     IN \E left \in SUBSET srvType[cell] :
          srvType' = [srvType EXCEPT ![cell] = left]
  /\ pc' = [pc EXCEPT ![p] = "ds_srvshard"]
  /\ calls' = Logged(p, "DeleteSrvTabletType")
  /\ UNCHANGED <<shard, repl, srvShard, tablets, initShard, lockVars, op, actionNode, localVars,
                 ret>>

\* loop body, last call: DeleteSrvShard, its error only logged; then the next cell
DeleteShard_DeleteSrvShard(p) ==
  /\ pc[p] = "ds_srvshard"
  /\ LET cell == shardInfo[p].Cells[cellIdx[p]]
     IN \E left \in {FALSE, srvShard[cell]} :
          srvShard' = [srvShard EXCEPT ![cell] = left]
  /\ cellIdx' = [cellIdx EXCEPT ![p] = @ + 1]
  /\ pc' = [pc EXCEPT ![p] = IF cellIdx[p] + 1 > Len(shardInfo[p].Cells)
                             THEN "ds_delete" ELSE "ds_repl"]
  /\ calls' = Logged(p, "DeleteSrvShard")
  /\ UNCHANGED <<shard, repl, srvType, tablets, initShard, lockVars, op, actionNode, lockPath,
                 shardInfo, readInfo, tabletMap, err, replErr, unlockErr, unlockArgs, ret>>

\* return wr.ts.DeleteShard(keyspace, shard)
DeleteShard_DeleteShard(p) ==
  /\ pc[p] = "ds_delete"
  /\ \E r \in StoreDeleteShardResults :
       /\ shard' = r[2]
       /\ Return(p, r[1])
  /\ calls' = Logged(p, "DeleteShard")
  /\ UNCHANGED <<repl, srvType, srvShard, tablets, initShard, lockVars, op, actionNode, localVars>>

\* ---------------------------------------------------------------- specification
Next ==
  \E p \in Procs :
    \/ Call(p)
    \/ SetShardServedTypes(p)
    \/ setShardServedTypes_GetShard(p)
    \/ setShardServedTypes_UpdateShard(p)
    \/ RemoveShardCell(p)
    \/ removeShardCell_GetShardCritical(p)
    \/ removeShardCell_GetShardReplication(p)
    \/ removeShardCell_DeleteShardReplication(p)
    \/ removeShardCell_UpdateShard(p)
    \/ unlockShard(p)
    \/ DeleteShard_GetShard(p)
    \/ DeleteShard_GetTabletMap(p)
    \/ DeleteShard_DeleteShardReplication(p)
    \/ DeleteShard_DeleteSrvTabletType(p)
    \/ DeleteShard_DeleteSrvShard(p)
    \/ DeleteShard_DeleteShard(p)

Spec == Init /\ [][Next]_vars

\* one caller alone, on a wider range of Shard records and cells
NextSeq ==
  \/ CallSeq(1)
  \/ SetShardServedTypes(1)
  \/ setShardServedTypes_GetShard(1)
  \/ setShardServedTypes_UpdateShard(1)
  \/ RemoveShardCell(1)
  \/ removeShardCell_GetShardCritical(1)
  \/ removeShardCell_GetShardReplication(1)
  \/ removeShardCell_DeleteShardReplication(1)
  \/ removeShardCell_UpdateShard(1)
  \/ unlockShard(1)
  \/ DeleteShard_GetShard(1)
  \/ DeleteShard_GetTabletMap(1)
  \/ DeleteShard_DeleteShardReplication(1)
  \/ DeleteShard_DeleteSrvTabletType(1)
  \/ DeleteShard_DeleteSrvShard(1)
  \/ DeleteShard_DeleteShard(1)

SpecSeq == InitSeq /\ [][NextSeq]_vars


\* ---------------------------------------------------------------- fair scheduling
MaxFairCells == 1

InitFair == InitWith(ConcCells, MaxFairCells)

\* the next step of an operation the caller has invoked: every store call returns,
\* and a wait for the lock ends with the lock, a timeout or an interruption
Proceed(p) ==
  \/ SetShardServedTypes(p)
  \/ setShardServedTypes_GetShard(p)
  \/ setShardServedTypes_UpdateShard(p)
  \/ RemoveShardCell(p)
  \/ removeShardCell_GetShardCritical(p)
  \/ removeShardCell_GetShardReplication(p)
  \/ removeShardCell_DeleteShardReplication(p)
  \/ removeShardCell_UpdateShard(p)
  \/ unlockShard(p)
  \/ DeleteShard_GetShard(p)
  \/ DeleteShard_GetTabletMap(p)
  \/ DeleteShard_DeleteShardReplication(p)
  \/ DeleteShard_DeleteSrvTabletType(p)
  \/ DeleteShard_DeleteSrvShard(p)
  \/ DeleteShard_DeleteShard(p)

\* concurrent callers, each of which keeps running once it has invoked an operation
SpecFair == InitFair /\ [][Next]_vars /\ \A p \in Procs : WF_vars(Proceed(p))

\* ---------------------------------------------------------------- properties
IsDone(p) == pc[p] = "done"

Locked(p) == op[p].name \in {"SetShardServedTypes", "RemoveShardCell"}

\* between the return of lockShard with a handle and the return of unlockShard
InCritical(p) ==
  pc[p] \in {"ss_get", "ss_update", "rc_get", "rc_getrepl", "rc_delrepl", "rc_update",
             "unlock"}

WriteCalls == {"UpdateShard", "DeleteShard", "DeleteShardReplication",
               "DeleteSrvTabletType", "DeleteSrvShard"}

CallNames(p) == {calls[p][i].call : i \in 1..Len(calls[p])}

WritesOf(p) == {i \in 1..Len(calls[p]) : calls[p][i].call \in WriteCalls}

\* C1: two callers of SetShardServedTypes / RemoveShardCell on the shard are never
\* both between their lock acquisition and their lock release, and whoever is
\* there holds the lock of the shard.
C1_MutualExclusion ==
  /\ \A p, q \in Procs : p # q => ~(InCritical(p) /\ InCritical(q))
  /\ \A p \in Procs : InCritical(p) => Holds(p)

\* a caller is in its guarded body while another one waits for the lock
C1_Witness ==
  \E p, q \in Procs :
    /\ p # q
    /\ pc[p] \in {"ss_update", "rc_update"}
    /\ pc[q] = "lock"

\* C2 as stated: every write to the Shard record or to its per-cell artifacts,
\* by any of the three operations, is issued by a caller that holds the lock.
C2_AllWritesUnderLock ==
  \A p \in Procs : \A i \in WritesOf(p) : calls[p][i].held

\* The part of C2 that the code keeps: the writes of SetShardServedTypes and
\* RemoveShardCell are issued under the lock of the shard; DeleteShard never
\* takes the lock, so none of its writes is issued under it.
C2_LockedOpsWriteUnderLock ==
  \A p \in Procs : \A i \in WritesOf(p) :
    IF Locked(p) THEN calls[p][i].held
    ELSE op[p].name = "DeleteShard" /\ ~calls[p][i].held /\ lockPath[p] = 0

\* C3: when a SetShardServedTypes(T) and a RemoveShardCell(c) have both returned
\* nil, and no other SetShardServedTypes ran, the Shard record (as long as it
\* exists) has ServedTypes = T and does not list c, whoever locked first.
C3_NoLostUpdate ==
  \A p, q \in Procs :
    ( /\ op[p].name = "SetShardServedTypes" /\ IsDone(p) /\ ret[p] = Nil
      /\ op[q].name = "RemoveShardCell" /\ IsDone(q) /\ ret[q] = Nil
      /\ \A r \in Procs \ {p} : op[r].name # "SetShardServedTypes"
      /\ shard.exists )
    => /\ shard.ServedTypes = op[p].servedTypes
       /\ ~InCellList(op[q].cell, shard.Cells)

\* both have returned nil, the RemoveShardCell having locked second: it read the
\* ServedTypes the SetShardServedTypes wrote
C3_Witness ==
  \E p, q \in Procs :
    /\ op[p].name = "SetShardServedTypes" /\ IsDone(p) /\ ret[p] = Nil
    /\ op[q].name = "RemoveShardCell" /\ IsDone(q) /\ ret[q] = Nil
    /\ lockPath[q] > lockPath[p]
    /\ readInfo[q].ServedTypes = op[p].servedTypes
    /\ shard.exists /\ Len(shard.Cells) > 0

\* C4 as stated: after SetShardServedTypes or RemoveShardCell returns, the node is
\* Failed iff the call returned an error, Done otherwise, never Queued.
C4_StateIffReturnedError ==
  \A p \in Procs :
    (Locked(p) /\ IsDone(p)) =>
      /\ actionNode[p].State # ACTION_STATE_QUEUED
      /\ actionNode[p].State = ACTION_STATE_FAILED <=> ret[p] # Nil
      /\ actionNode[p].State = ACTION_STATE_DONE <=> ret[p] = Nil

\* C4 amended: after a call that acquired the lock returns, the node is Failed
\* iff the guarded body returned an error and Done otherwise; the call returns an
\* error iff the body or the unlock failed. A call whose lock acquisition failed
\* returns that error with its node still Queued.
C4_StateIffBodyError ==
  \A p \in Procs :
    (Locked(p) /\ IsDone(p)) =>
      IF lockPath[p] = 0
      THEN actionNode[p].State = ACTION_STATE_QUEUED /\ ret[p] = ErrLock
      ELSE /\ actionNode[p].State \in {ACTION_STATE_FAILED, ACTION_STATE_DONE}
           /\ actionNode[p].State = ACTION_STATE_FAILED <=> err[p] # Nil
           /\ ret[p] # Nil <=> (err[p] # Nil \/ unlockErr[p] # Nil)

\* a call has returned the unlock error with its node Done, another the lock
\* error with its node Queued
C4_Witness ==
  \E p, q \in Procs :
    /\ IsDone(p) /\ ret[p] = ErrUnlock /\ actionNode[p].State = ACTION_STATE_DONE
    /\ IsDone(q) /\ ret[q] = ErrLock /\ actionNode[q].State = ACTION_STATE_QUEUED


LookupFailed(p) == replErr[p] \notin {"none", Nil, ErrNoNode}

\* C5: a RemoveShardCell whose cell is the MasterAlias.Cell of the record it read
\* never returns nil and never gets to the replication lookup or to UpdateShard,
\* whatever force is.
C5_MasterCellNeverRemoved ==
  \A p \in Procs :
    (op[p].name = "RemoveShardCell" /\ readInfo[p].MasterCell = op[p].cell) =>
      /\ ret[p] # Nil
      /\ pc[p] \notin {"rc_getrepl", "rc_delrepl", "rc_update"}
      /\ CallNames(p) \cap (WriteCalls \cup {"GetShardReplication"}) = {}
      /\ IsDone(p) => err[p] \in {ErrCellNotPresent, ErrMasterInCell}

\* a forced RemoveShardCell of the master's cell, which the shard lists, has failed
C5_Witness ==
  \E p \in Procs :
    /\ op[p].name = "RemoveShardCell" /\ op[p].force
    /\ IsDone(p) /\ ret[p] = ErrMasterInCell
    /\ InCellList(op[p].cell, readInfo[p].Cells)
    /\ shard.exists /\ InCellList(op[p].cell, shard.Cells)

CleanupCalls == {"DeleteShardReplication", "DeleteSrvTabletType", "DeleteSrvShard"}

\* C6: DeleteShard returns ShardNotEmpty iff the tablet map it fetched is not
\* empty, and then it has issued no cleanup deletion at all.
C6_ShardNotEmptyIffTablets ==
  \A p \in Procs :
    (op[p].name = "DeleteShard" /\ IsDone(p)) =>
      /\ ret[p] = ErrShardNotEmpty <=> tabletMap[p] > 0
      /\ tabletMap[p] > 0 => CallNames(p) \cap (CleanupCalls \cup {"DeleteShard"}) = {}

\* a DeleteShard has failed with ShardNotEmpty
C6_Witness ==
  \E p \in Procs :
    /\ op[p].name = "DeleteShard" /\ IsDone(p)
    /\ ret[p] = ErrShardNotEmpty
    /\ Len(readInfo[p].Cells) > 0

\* C7: after a replication lookup error other than not-found, RemoveShardCell
\* without force returns exactly that error and leaves the record alone; with
\* force it goes on to UpdateShard with the cell removed, never returns the lookup
\* error, and returns nil when UpdateShard and the unlock succeed.
C7_ForceDowngradesLookupError ==
  \A p \in Procs :
    (op[p].name = "RemoveShardCell" /\ IsDone(p) /\ LookupFailed(p)) =>
      IF ~op[p].force
      THEN /\ ret[p] = replErr[p]
           /\ "UpdateShard" \notin CallNames(p)
      ELSE /\ "UpdateShard" \in CallNames(p)
           /\ ~InCellList(op[p].cell, shardInfo[p].Cells)
           /\ ret[p] # replErr[p]
           /\ err[p] \in {Nil, ErrUpdateShard, ErrNoNode}
           /\ ret[p] = Nil <=> (err[p] = Nil /\ unlockErr[p] = Nil)
           /\ (err[p] = Nil /\ shard.exists) => ~InCellList(op[p].cell, shard.Cells)

\* the lookup has failed for two callers removing the same cell: the one without
\* force got the error, the one with force returned nil
C7_Witness ==
  \E p, q \in Procs :
    /\ op[p].name = "RemoveShardCell" /\ ~op[p].force /\ IsDone(p)
    /\ LookupFailed(p) /\ ret[p] = ErrGetRepl
    /\ op[q].name = "RemoveShardCell" /\ op[q].force /\ IsDone(q)
    /\ op[q].cell = op[p].cell
    /\ LookupFailed(q) /\ ret[q] = Nil
    /\ shard.exists /\ ~InCellList(op[q].cell, shard.Cells)

\* the places of `cells` that do not hold `cell`
Kept(cells, cell) == {i \in 1..Len(cells) : cells[i] # cell}

\* `out` is `cells` without any occurrence of `cell`, the rest in its order
IsWithout(out, cells, cell) ==
  /\ Len(out) = Cardinality(Kept(cells, cell))
  /\ \A k \in 1..Len(out) :
       \E i \in Kept(cells, cell) :
         /\ Cardinality({j \in Kept(cells, cell) : j <= i}) = k
         /\ out[k] = cells[i]

\* C8: when RemoveShardCell returns nil for cell c, the record it wrote is the
\* record it read with every occurrence of c taken out of Cells and the other
\* cells in their order, and that is the record of the store.
C8_CellsFilteredInOrder ==
  \A p \in Procs :
    (op[p].name = "RemoveShardCell" /\ IsDone(p) /\ ret[p] = Nil) =>
      /\ IsWithout(shardInfo[p].Cells, readInfo[p].Cells, op[p].cell)
      /\ shardInfo[p].MasterCell = readInfo[p].MasterCell
      /\ shardInfo[p].ServedTypes = readInfo[p].ServedTypes
      /\ shard.exists /\ AsInfo(shard) = shardInfo[p]

\* [1, 2, 3] with 2 removed has given [1, 3]
C8_Witness ==
  \E p \in Procs :
    /\ op[p] = RemoveOp(2, FALSE) /\ IsDone(p) /\ ret[p] = Nil
    /\ readInfo[p].Cells = <<1, 2, 3>>
    /\ "DeleteShardReplication" \in CallNames(p)
    /\ shard.Cells = <<1, 3>>

\* C9: once the lock was acquired, the call returns the guarded body's error when
\* there is one, whatever the unlock call did, and the unlock call's result
\* otherwise.
C9_BodyErrorWins ==
  \A p \in Procs :
    (Locked(p) /\ IsDone(p) /\ lockPath[p] # 0) =>
      /\ unlockErr[p] \in {Nil, ErrUnlock}
      /\ ret[p] = (IF err[p] # Nil THEN err[p] ELSE unlockErr[p])

\* a body error has been returned although the unlock failed too
C9_Witness ==
  \E p \in Procs :
    /\ Locked(p) /\ IsDone(p)
    /\ err[p] = ErrUpdateShard /\ unlockErr[p] = ErrUnlock
    /\ ret[p] = ErrUpdateShard

\* C10 as stated: a call whose guarded body succeeded returns nil even when the
\* unlock call fails.
C10_UnlockFailureKeepsNil ==
  \A p \in Procs :
    (Locked(p) /\ IsDone(p) /\ lockPath[p] # 0 /\ err[p] = Nil) => ret[p] = Nil

\* C10 amended: a call whose guarded body succeeded returns the unlock error when
\* the unlock call fails (the mutation stays written), and nil only when the
\* unlock succeeded.
C10_UnlockFailureSurfaces ==
  \A p \in Procs :
    (Locked(p) /\ IsDone(p) /\ "UpdateShard" \in CallNames(p) /\ err[p] = Nil) =>
      /\ unlockErr[p] = ErrUnlock => ret[p] = ErrUnlock
      /\ unlockErr[p] = Nil => ret[p] = Nil

\* a SetShardServedTypes has written the record and returned the unlock error
C10_Witness ==
  \E p \in Procs :
    /\ op[p].name = "SetShardServedTypes" /\ IsDone(p)
    /\ err[p] = Nil /\ ret[p] = ErrUnlock
    /\ shard.exists /\ shard.ServedTypes = op[p].servedTypes

\* the store calls of the caller, in order
CallSeqOf(p) == [i \in 1..Len(calls[p]) |-> calls[p][i].call]

\* the calls DeleteShard makes for the cells it read, whatever each of them returns
RECURSIVE CleanupOf(_)
CleanupOf(cells) ==
  IF cells = <<>> THEN <<>>
  ELSE <<"DeleteShardReplication", "DeleteSrvTabletType", "DeleteSrvShard">>
       \o CleanupOf(Tail(cells))

\* C11: once DeleteShard has read the Shard record and found the tablet map empty,
\* it makes the three cleanup calls for every cell it read, whatever they return,
\* then calls the store's DeleteShard, and what it returns is the result of that
\* call: nil with the record gone, or the store's error, never a cleanup error.
C11_DeletionAlwaysAttempted ==
  \A p \in Procs :
    (op[p].name = "DeleteShard" /\ tabletMap[p] = 0) =>
      /\ pc[p] \in {"ds_repl", "ds_srvtype", "ds_srvshard", "ds_delete", "done"}
      /\ IsDone(p) =>
           /\ CallSeqOf(p) = <<"GetShard", "GetTabletMapForShard">>
                             \o CleanupOf(readInfo[p].Cells) \o <<"DeleteShard">>
           /\ ret[p] \in {Nil, ErrDeleteShard, ErrNoNode}
           /\ ret[p] \in {Nil, ErrNoNode} => ~shard.exists

\* DeleteShard has returned nil although the cleanup of a cell it read has left
\* the ShardReplication record and the SrvShard entry of that cell in place
C11_Witness ==
  \E p \in Procs :
    /\ op[p].name = "DeleteShard" /\ IsDone(p) /\ ret[p] = Nil
    /\ \E c \in Range(readInfo[p].Cells) : repl[c] # NoRepl /\ srvShard[c]

\* the record SetShardServedTypes writes: the one it read under the lock, with the
\* requested ServedTypes
Written(p) == [readInfo[p] EXCEPT !.ServedTypes = op[p].servedTypes]

\* a step of the caller's SetShardServedTypes call, from lockShard to the return
SetStep(p) == op[p].name = "SetShardServedTypes" /\ pc'[p] # pc[p]

\* the step by which the caller's SetShardServedTypes returns nil
SetReturnsNil(p) == SetStep(p) /\ pc'[p] = "done" /\ ret'[p] = Nil

\* no step of the call touches a ShardReplication record or a serving-graph entry,
\* and a step that changes the Shard record stores Written(p)
SetFrame(p) ==
  SetStep(p) =>
    /\ UNCHANGED <<repl, srvType, srvShard, tablets>>
    /\ shard' # shard => shard'.exists /\ AsInfo(shard') = Written(p)

\* C12: no step of SetShardServedTypes(T) changes a ShardReplication record or a
\* serving-graph entry; the only record it stores is the one it read under the lock
\* with ServedTypes = T, Cells and master alias as read; and when it returns nil it
\* has stored that record, which is the Shard record at that moment as long as the
\* record exists (DeleteShard takes no lock and may have deleted it, see C2).
C12_SetServedTypesFrame ==
  [][\A p \in Procs :
       /\ SetFrame(p)
       /\ SetReturnsNil(p) =>
            /\ CallSeqOf(p) = <<"LockShardForAction", "GetShard", "UpdateShard">>
            /\ shardInfo[p] = Written(p)
            /\ shard'.exists => AsInfo(shard') = Written(p)]_vars

\* a SetShardServedTypes has returned nil on a shard with cells and a
\* ShardReplication record: the record has the new ServedTypes and nothing else
\* has changed
C12_Witness ==
  \E p \in Procs :
    /\ op[p].name = "SetShardServedTypes" /\ IsDone(p) /\ ret[p] = Nil
    /\ shard.exists /\ AsInfo(shard) = Written(p)
    /\ shard.ServedTypes # initShard.ServedTypes
    /\ shard.Cells = initShard.Cells /\ Len(shard.Cells) > 0
    /\ \E c \in Range(shard.Cells) : repl[c] > 0 /\ srvShard[c]

\* how many of the caller's store calls are calls of `name`
CountOf(p, name) == Cardinality({i \in 1..Len(calls[p]) : calls[p][i].call = name})

\* C13: a SetShardServedTypes or RemoveShardCell whose lock acquisition succeeded
\* has called UnlockShardForAction exactly once when it has returned, as its last
\* store call and with the handle its acquisition returned, whether its body
\* succeeded or failed, and not at all before; one whose acquisition failed has
\* returned that error with LockShardForAction as its only store call.
C13_UnlockExactlyOnce ==
  \A p \in Procs :
    Locked(p) =>
      /\ CountOf(p, "LockShardForAction") = (IF pc[p] = "lock" THEN 0 ELSE 1)
      /\ CountOf(p, "UnlockShardForAction")
           = (IF IsDone(p) /\ lockPath[p] # 0 THEN 1 ELSE 0)
      /\ (IsDone(p) /\ lockPath[p] # 0) =>
           /\ calls[p][Len(calls[p])].call = "UnlockShardForAction"
           /\ unlockArgs[p][1] = lockPath[p]
           /\ ret[p] # "none"
      /\ (IsDone(p) /\ lockPath[p] = 0) =>
           /\ ret[p] = ErrLock
           /\ CallSeqOf(p) = <<"LockShardForAction">>
           /\ unlockArgs[p][1] = 0

\* one caller has returned after its guarded body failed, having unlocked with its
\* handle, and another one has returned the error of its lock acquisition
C13_Witness ==
  \E p, q \in Procs :
    /\ Locked(p) /\ IsDone(p) /\ lockPath[p] # 0 /\ err[p] # Nil
    /\ unlockArgs[p][1] = lockPath[p]
    /\ Locked(q) /\ IsDone(q) /\ lockPath[q] = 0 /\ ret[q] = ErrLock

\* the terminal state of the caller's ActionNode, from the guarded body's error alone
TerminalNode(p) ==
  IF err[p] # Nil THEN [State |-> ACTION_STATE_FAILED, Error |-> err[p]]
  ELSE [State |-> ACTION_STATE_DONE, Error |-> ""]

\* C14: the ActionNode of a call is Queued with empty Error from its construction
\* to the end of the guarded body; at the release it becomes Failed with the body's
\* error text or Done with empty Error, whatever the unlock call returns, and it
\* changes at no other step; the payload handed to the unlock call is that terminal
\* node, and it is what the store has recorded when the unlock succeeded.
C14_StateChangesOnceAtRelease ==
  [][\A p \in Procs :
       /\ (Locked(p) /\ ~IsDone(p)) =>
            actionNode[p] = [State |-> ACTION_STATE_QUEUED, Error |-> ""]
       /\ actionNode'[p] # actionNode[p] =>
            \/ pc[p] = "idle" /\ actionNode'[p].State = ACTION_STATE_QUEUED
            \/ /\ pc[p] = "unlock" /\ pc'[p] = "done"
               /\ actionNode'[p] = TerminalNode(p)
       /\ (pc[p] = "unlock" /\ pc'[p] = "done") =>
            /\ actionNode'[p] = TerminalNode(p)
            /\ unlockArgs'[p][2] = ToJson(TerminalNode(p))
            /\ unlockErr'[p] = Nil => lockPayload' = ToJson(TerminalNode(p))]_vars

\* Failed after an unlock that succeeded, and Done after an unlock that failed
C14_Witness ==
  \E p, q \in Procs :
    /\ Locked(p) /\ IsDone(p) /\ lockPath[p] # 0
    /\ actionNode[p].State = ACTION_STATE_FAILED /\ unlockErr[p] = Nil
    /\ unlockArgs[p][2] = <<ACTION_STATE_FAILED, err[p]>>
    /\ Locked(q) /\ IsDone(q) /\ lockPath[q] # 0
    /\ actionNode[q].State = ACTION_STATE_DONE /\ unlockErr[q] = ErrUnlock
    /\ unlockArgs[q][2] = <<ACTION_STATE_DONE, "">>

\* the caller's RemoveShardCell has read the Shard record
HasRead(p) == op[p].name = "RemoveShardCell" /\ readInfo[p] # NoShardInfo

\* the three failures of removeShardCell that force never lifts
PreconditionErrors == {ErrCellNotPresent, ErrMasterInCell, ErrLinksPresent}

\* C15: for a single caller and both values of force, a RemoveShardCell whose
\* lookup returned the cell's ShardReplication record with at least one link ends
\* with ReplicationLinksPresent, having written nothing: the Shard record and the
\* replication record are as before. It gets to the deletion of the replication
\* record only with zero links, a cell not in Cells gives CellNotPresent and the
\* master's cell MasterInCell, and no call that met one of these three failures has
\* written anything; force lets it go on only after a failed lookup.
C15_LinksPresentWhateverForce ==
  \A p \in Procs :
    HasRead(p) =>
      LET c == op[p].cell
      IN /\ pc[p] = "rc_delrepl" => replErr[p] = Nil /\ repl[c] = 0
         /\ (pc[p] \in {"unlock", "done"} /\ replErr[p] = Nil /\ repl[c] > 0) =>
              err[p] = ErrLinksPresent
         /\ (pc[p] \in {"unlock", "done"} /\ ~InCellList(c, readInfo[p].Cells)) =>
              err[p] = ErrCellNotPresent
         /\ ( /\ pc[p] \in {"unlock", "done"}
              /\ InCellList(c, readInfo[p].Cells)
              /\ readInfo[p].MasterCell = c ) => err[p] = ErrMasterInCell
         /\ err[p] \in PreconditionErrors =>
              /\ WritesOf(p) = {}
              /\ shard = initShard
              /\ IsDone(p) => ret[p] = err[p]
         /\ (pc[p] = "rc_update" /\ replErr[p] \notin {Nil, ErrNoNode}) => op[p].force

\* RemoveShardCell with force has returned ReplicationLinksPresent for a cell that
\* is listed, is not the master's and has a replication record with a link
C15_Witness ==
  \E p \in Procs :
    /\ HasRead(p) /\ IsDone(p) /\ op[p].force
    /\ ret[p] = ErrLinksPresent
    /\ repl[op[p].cell] > 0
    /\ InCellList(op[p].cell, shard.Cells)
    /\ shard.MasterCell # op[p].cell

\* the caller's removeShardCell is at its UpdateShard or has called it
AtOrPastUpdate(p) == pc[p] = "rc_update" \/ "UpdateShard" \in CallNames(p)

\* the store calls of removeShardCell up to UpdateShard, by the lookup's result
CallsBeforeUpdate(p) ==
  <<"LockShardForAction", "GetShardCritical", "GetShardReplication">>
  \o (IF replErr[p] = Nil THEN <<"DeleteShardReplication">> ELSE <<>>)

\* C16: for a single caller, removeShardCell is at its UpdateShard only when the
\* lookup of the cell's ShardReplication record returned not-found, or returned a
\* record whose deletion was then called and succeeded, so that the record is
\* absent, or when the lookup failed and force is set; these calls come before
\* UpdateShard in this order. When the deletion fails the call ends with that error
\* without calling UpdateShard, and the Shard record is as before.
C16_CellsWrittenAfterReplicationGone ==
  \A p \in Procs :
    HasRead(p) =>
      /\ AtOrPastUpdate(p) =>
           /\ \/ replErr[p] = ErrNoNode
              \/ replErr[p] = Nil /\ err[p] # ErrDelRepl
              \/ LookupFailed(p) /\ op[p].force
           /\ ~LookupFailed(p) => repl[op[p].cell] = NoRepl
           /\ SubSeq(CallSeqOf(p), 1, Len(CallsBeforeUpdate(p))) = CallsBeforeUpdate(p)
           /\ CountOf(p, "UpdateShard") = (IF pc[p] = "rc_update" THEN 0 ELSE 1)
      /\ err[p] = ErrDelRepl =>
           /\ replErr[p] = Nil
           /\ "UpdateShard" \notin CallNames(p)
           /\ shard = initShard
           /\ IsDone(p) => ret[p] = ErrDelRepl

\* the lookup returned a record without links, its deletion succeeded, and the
\* call has then written the shortened Cells and returned nil
C16_Witness ==
  \E p \in Procs :
    /\ HasRead(p) /\ IsDone(p) /\ ret[p] = Nil
    /\ replErr[p] = Nil /\ "DeleteShardReplication" \in CallNames(p)
    /\ repl[op[p].cell] = NoRepl
    /\ InCellList(op[p].cell, initShard.Cells)
    /\ shard.exists /\ ~InCellList(op[p].cell, shard.Cells)

\* the caller's removeShardCell has got to the lookup of the replication record
AtOrPastLookup(p) == pc[p] = "rc_getrepl" \/ "GetShardReplication" \in CallNames(p)

\* C17: removeShardCell tests the record it read for the cell, then for the master
\* alias, and only then fetches the replication record: a cell not in Cells ends
\* the body with CellNotPresent also when it is the master's cell, a listed cell
\* that is the master's ends it with MasterInCell, in both cases without
\* GetShardReplication being called; a call gets to the lookup only with both
\* tests passed; and a call ended by one of the tests or by the lookup has written
\* nothing to the store.
C17_ChecksInOrder ==
  \A p \in Procs :
    HasRead(p) =>
      LET c == op[p].cell
          present == InCellList(c, readInfo[p].Cells)
          master == readInfo[p].MasterCell = c
      IN /\ pc[p] \in {"unlock", "done"} =>
              /\ ~present => err[p] = ErrCellNotPresent
              /\ (present /\ master) => err[p] = ErrMasterInCell
         /\ err[p] \in {ErrCellNotPresent, ErrMasterInCell} =>
              /\ CallNames(p) \subseteq {"LockShardForAction", "GetShardCritical",
                                        "UnlockShardForAction"}
              /\ replErr[p] = "none"
         /\ AtOrPastLookup(p) => present /\ ~master
         /\ err[p] \in {ErrCellNotPresent, ErrMasterInCell, ErrLinksPresent, ErrGetRepl} =>
              /\ WritesOf(p) = {}
              /\ shard = initShard
              /\ IsDone(p) => ret[p] = err[p]

\* the cell is not listed and is the master's cell: CellNotPresent is returned
C17_Witness ==
  \E p \in Procs :
    /\ HasRead(p) /\ IsDone(p)
    /\ ~InCellList(op[p].cell, readInfo[p].Cells)
    /\ readInfo[p].MasterCell = op[p].cell
    /\ ret[p] = ErrCellNotPresent

\* C18: with callers that keep running and store calls that return, every
\* invocation of SetShardServedTypes, RemoveShardCell and DeleteShard returns, a
\* waiter for the lock included; and a caller that holds the lock does not hold it
\* forever: it gets to its release, after which the lock is free unless the store's
\* unlock call itself failed.
C18_EveryCallReturns ==
  \A p \in Procs :
    /\ (pc[p] # "idle") ~> IsDone(p)
    /\ Holds(p) ~> (~Holds(p) \/ unlockErr[p] = ErrUnlock)

\* a waiter has returned with the lock error while the other caller held the lock,
\* and the holder has returned and released it
C18_Witness ==
  \E p, q \in Procs :
    /\ Locked(p) /\ IsDone(p) /\ ret[p] = ErrLock
    /\ Locked(q) /\ IsDone(q) /\ lockPath[q] # 0 /\ unlockErr[q] = Nil
    /\ lockHolder = 0

\* `s` is `t` with some of its elements left out, the others in their order
RECURSIVE IsSubList(_, _)
IsSubList(s, t) ==
  IF s = <<>> THEN TRUE
  ELSE IF t = <<>> THEN FALSE
  ELSE IF Head(s) = Head(t) THEN IsSubList(Tail(s), Tail(t))
  ELSE IsSubList(s, Tail(t))

\* C19: under every interleaving of the three operations, as long as the Shard
\* record exists its Cells are a sub-list of the initial Cells in their order, its
\* master alias is the initial one, and the master's cell is listed if it was
\* listed initially.
C19_CellsOnlyShrink ==
  shard.exists =>
    /\ IsSubList(shard.Cells, initShard.Cells)
    /\ shard.MasterCell = initShard.MasterCell
    /\ InCellList(initShard.MasterCell, initShard.Cells) =>
         InCellList(shard.MasterCell, shard.Cells)

\* a RemoveShardCell and a SetShardServedTypes have both written the record: a
\* cell is gone, the ServedTypes are new, the master's cell is still listed
C19_Witness ==
  /\ shard.exists
  /\ Len(shard.Cells) < Len(initShard.Cells)
  /\ shard.ServedTypes # initShard.ServedTypes
  /\ InCellList(shard.MasterCell, shard.Cells)
  /\ \E p \in Procs : op[p].name = "RemoveShardCell" /\ IsDone(p) /\ ret[p] = Nil

====
